---- MODULE Spec2Model ----
(***************************************************************************)
(* Apriori frequent-itemset mining and association-rule generation of      *)
(* assoc-rule-miner-template.py.                                           *)
(*                                                                         *)
(* Transactions and itemsets are Python lists of labels: sequences here.   *)
(* Thresholds (minsup, minconf) are rationals <<num, den>> with den > 0;   *)
(* Python 3 true division a / b >= num / den is decided exactly as         *)
(* a * den >= num * b (b > 0), and a division by zero raises               *)
(* ZeroDivisionError.  Dictionaries keep insertion order (Python >= 3.7).  *)
(***************************************************************************)
EXTENDS Integers, Sequences, FiniteSets

VARIABLES
    pc,                     \* position of the running call
    entry,                  \* entry point called: "itemset" or "rules"
    transactions,           \* argument: list of lists of labels
    minsup,                 \* argument: <<num, den>>
    minconf,                \* argument: <<num, den>> (unused by "itemset")
    frequent_items,         \* the frontier F_k (line 39 / line 50)
    frequent_items_output,  \* the accumulated output (line 40 / line 44)
    passes,                 \* number of passes of the while loop so far
    idx,                    \* 1-based position of the for loop of line 205; 0 before it
    rules,                  \* the accumulated rules (line 204)
    outcome,                \* "none", "returned" or "ZeroDivisionError"
    prev                    \* outcome and result of the previous call, <<>> if none

vars == <<pc, entry, transactions, minsup, minconf, frequent_items,
          frequent_items_output, passes, idx, rules, outcome, prev>>

----------------------------------------------------------------------------
(* Bounds of the model and the inputs drawn.                               *)

\* the label vocabulary of the inputs
Items == {"a", "b", "c"}
\* at most this many transactions in an input list
MaxTrans == 2
\* at most this many labels in an input list, over all its transactions
MaxLabels == 4

\* the separator the rule lists carry between antecedent and consequent
ARROW == "=>"

\* what merge returns when the two itemsets do not join (Python None); a
\* merged itemset is never the empty list
NONE == <<>>

\* thresholds drawn: 0, 1/2, 1 and 2 for minsup, 0, 1/2 and 1 for minconf
MinsupValues == {<<0, 1>>, <<1, 2>>, <<1, 1>>, <<2, 1>>}
MinconfValues == {<<0, 1>>, <<1, 2>>, <<1, 1>>}

SeqsUpTo(S, n) == UNION {[1..k -> S] : k \in 0..n}

RECURSIVE ListsOf(_, _)
\* the lists of exactly m transactions holding at most l labels in all
ListsOf(m, l) ==
    IF m = 0 THEN {<<>>}
    ELSE UNION {{<<t>> \o rest : rest \in ListsOf(m - 1, l - Len(t))} :
                t \in SeqsUpTo(Items, l)}

TransactionLists == UNION {ListsOf(m, MaxLabels) : m \in 0..MaxTrans}

----------------------------------------------------------------------------
(* Helpers on lists.                                                       *)

Range(s) == {s[i] : i \in 1..Len(s)}

\* Python's `x in list`
InList(x, list) == \E i \in 1..Len(list) : list[i] = x

\* list.extend(more), as an expression
extend_assigns(list, more) == more
extend(list, more) == list \o more

\* a copy of list with the element at 1-based position i popped
Pop(list, i) == SubSeq(list, 1, i - 1) \o SubSeq(list, i + 1, Len(list))

RECURSIVE Flatten(_)
Flatten(T) == IF T = <<>> THEN <<>> ELSE Head(T) \o Flatten(Tail(T))

RECURSIVE FirstOccurrences(_)
\* the distinct elements of s in order of first occurrence: the key order of
\* a dict filled by scanning s
FirstOccurrences(s) ==
    IF s = <<>> THEN <<>>
    ELSE LET init == FirstOccurrences(SubSeq(s, 1, Len(s) - 1))
             last == s[Len(s)]
         IN  IF InList(last, init) THEN init ELSE Append(init, last)

Occurrences(x, s) == Cardinality({i \in 1..Len(s) : s[i] = x})

\* a / b >= t for integers a, b > 0 and a rational t
RatioGeq(a, b, t) == a * t[2] >= t[1] * b
RatioGt(a, b, t) == a * t[2] > t[1] * b

----------------------------------------------------------------------------
(* Support counting.                                                       *)

\* every item of candidate is in transaction
is_contains_candidate_positional(transaction, candidate) ==
    /\ Len(candidate) <= Len(transaction)
    /\ \A i \in 1..Len(candidate) : candidate[i] = transaction[i]
is_contains_candidate(transaction, candidate) ==
    \A i \in 1..Len(candidate) : InList(candidate[i], transaction)

\* support_count of get_support_for_candidate; the support it returns is
\* support_count / len(transactions)
support_count(T, candidate) ==
    Cardinality({i \in 1..Len(T) : is_contains_candidate(T[i], candidate)})

\* get_support_for_candidate raises ZeroDivisionError iff len(transactions) = 0
get_support_raises(T) == Len(T) = 0

\* candidate_elimination: the candidates with support >= minsup, in order
candidate_elimination_strict(T, candidates, ms) ==
    LET keep(c) == RatioGt(support_count(T, c), Len(T), ms)
    IN  SelectSeq(candidates, keep)
candidate_elimination(T, candidates, ms) ==
    LET keep(c) == RatioGeq(support_count(T, c), Len(T), ms)
    IN  SelectSeq(candidates, keep)

\* candidate_elimination raises iff it computes a support over no transactions
candidate_elimination_raises(T, candidates) ==
    candidates # <<>> /\ get_support_raises(T)

----------------------------------------------------------------------------
(* Candidate generation and pruning.                                       *)

\* merge without the comparison of the first length - 1 items
merge_any_pair(itemset1, itemset2) ==
    IF Len(itemset1) = 0 THEN NONE
    ELSE Append(itemset1, itemset2[Len(itemset1)])
merge(itemset1, itemset2) ==
    LET length == Len(itemset1)
    IN  IF length = 1 THEN Append(itemset1, itemset2[1])
        ELSE IF length = 0 THEN NONE
        ELSE IF \E i \in 1..(length - 1) : itemset1[i] # itemset2[i] THEN NONE
        ELSE Append(itemset1, itemset2[length])

RECURSIVE generation_inner(_, _, _)
generation_inner(F, i, j) ==
    IF j > Len(F) THEN <<>>
    ELSE LET next_item_set == merge(F[i], F[j])
         IN  (IF next_item_set = NONE THEN <<>> ELSE <<next_item_set>>)
             \o generation_inner(F, i, j + 1)

RECURSIVE generation_outer(_, _)
generation_outer(F, i) ==
    IF i > Len(F) - 1 THEN <<>>
    ELSE generation_inner(F, i, i + 1) \o generation_outer(F, i + 1)

candidate_generation(F) == generation_outer(F, 1)

is_prune_candidate(F, candidate) ==
    \E i \in 1..Len(candidate) : ~InList(Pop(candidate, i), F)

candidate_prune(F, candidates) ==
    IF Len(F[1]) = 1 THEN candidates
    ELSE LET keep(c) == ~is_prune_candidate(F, c)
         IN  SelectSeq(candidates, keep)

----------------------------------------------------------------------------
(* Size-1 itemsets.                                                        *)

\* the keys of the dict `items`, in insertion order
item_keys(T) == FirstOccurrences(Flatten(T))

\* the value the dict `items` holds for a key: one per occurrence
item_value(T, x) == Occurrences(x, Flatten(T))

\* the comprehension of line 182 divides by num_trans once per key
generate_initial_raises_eager(T) == Len(T) = 0
generate_initial_raises(T) == item_keys(T) # <<>> /\ Len(T) = 0

generate_initial_frequent_items(T, ms) ==
    LET keep(x) == RatioGeq(item_value(T, x), Len(T), ms)
        kept == SelectSeq(item_keys(T), keep)
    IN  [i \in 1..Len(kept) |-> <<kept[i]>>]

----------------------------------------------------------------------------
(* Rule generation.                                                        *)

\* itemset1 - itemset2, in the order of itemset1
minus_subset(itemset1, itemset2) ==
    LET keep(item) == ~InList(item, itemset2)
    IN  SelectSeq(itemset1, keep)

\* calculate_conf returns support_all / support_x; both supports are counts
\* over len(transactions), so the quotient is this pair read as a ratio
calculate_conf_of_consequent(T, itemset_x, itemset_y) ==
    <<support_count(T, itemset_x \o itemset_y), support_count(T, itemset_y)>>
calculate_conf(T, itemset_x, itemset_y) ==
    <<support_count(T, itemset_x \o itemset_y), support_count(T, itemset_x)>>

\* calculate_conf raises ZeroDivisionError iff a support divides by
\* len(transactions) = 0 or support_x is zero
calculate_conf_raises(T, itemset_x, itemset_y) ==
    get_support_raises(T) \/ support_count(T, itemset_x) = 0

\* the test of line 235
conf_passes(T, I, h, mc) ==
    LET conf == calculate_conf(T, minus_subset(I, h), h)
    IN  RatioGeq(conf[1], conf[2], mc)

rule_prune_raises(T, I, H) ==
    \E k \in 1..Len(H) : calculate_conf_raises(T, minus_subset(I, H[k]), H[k])

\* rule_prune when it does not raise: the kept consequents and the rules
rule_prune(T, I, H, mc) ==
    LET passes_h(h) == conf_passes(T, I, h, mc)
        fails_h(h) == ~conf_passes(T, I, h, mc)
        delete_itemsets == SelectSeq(H, fails_h)
        emitted == SelectSeq(H, passes_h)
    IN  [H |-> minus_subset(H, delete_itemsets),
         output_rules |-> [k \in 1..Len(emitted) |->
                             minus_subset(I, emitted[k]) \o <<ARROW>> \o emitted[k]]]

RECURSIVE rules_while(_, _, _, _, _)
\* the while loop of lines 212-216: [raises, rules]
rules_while(T, I, H, h_size, mc) ==
    IF Len(I) > h_size + 1
    THEN LET H1 == candidate_generation(H)
         IN  IF rule_prune_raises(T, I, H1)
             THEN [raises |-> TRUE, rules |-> <<>>]
             ELSE LET pruned == rule_prune(T, I, H1, mc)
                      rest == rules_while(T, I, pruned.H, h_size + 1, mc)
                  IN  [raises |-> rest.raises,
                       rules |-> pruned.output_rules \o rest.rules]
    ELSE [raises |-> FALSE, rules |-> <<>>]

\* the body of the for loop of line 205 for one frequent itemset
rules_of_itemset(T, I, mc) ==
    IF Len(I) >= 2
    THEN LET H == [k \in 1..Len(I) |-> <<I[k]>>]
         IN  IF rule_prune_raises(T, I, H)
             THEN [raises |-> TRUE, rules |-> <<>>]
             ELSE LET pruned == rule_prune(T, I, H, mc)
                      rest == rules_while(T, I, pruned.H, 1, mc)
                  IN  [raises |-> rest.raises,
                       rules |-> pruned.output_rules \o rest.rules]
    ELSE [raises |-> FALSE, rules |-> <<>>]

----------------------------------------------------------------------------
(* The calls as a state machine.                                           *)

Init ==
    /\ pc = "idle"
    /\ entry = "none"
    /\ transactions = <<>>
    /\ minsup = <<0, 1>>
    /\ minconf = <<0, 1>>
    /\ frequent_items = <<>>
    /\ frequent_items_output = <<>>
    /\ passes = 0
    /\ idx = 0
    /\ rules = <<>>
    /\ outcome = "none"
    /\ prev = <<>>

\* a caller calls generate_frequent_itemset(transactions, minsup)
CallFrequentItemset ==
    /\ pc = "idle"
    /\ \E T \in TransactionLists, ms \in MinsupValues :
          /\ transactions' = T
          /\ minsup' = ms
    /\ entry' = "itemset"
    /\ pc' = "mine_init"
    /\ UNCHANGED <<minconf, frequent_items, frequent_items_output, passes,
                   idx, rules, outcome, prev>>

\* a caller calls generate_association_rules(transactions, minsup, minconf),
\* which calls generate_frequent_itemset(transactions, minsup) first
CallAssociationRules ==
    /\ pc = "idle"
    /\ \E T \in TransactionLists, ms \in MinsupValues, mc \in MinconfValues :
          /\ transactions' = T
          /\ minsup' = ms
          /\ minconf' = mc
    /\ entry' = "rules"
    /\ pc' = "mine_init"
    /\ UNCHANGED <<frequent_items, frequent_items_output, passes, idx, rules,
                   outcome, prev>>

\* lines 39-41
GenerateInitial ==
    /\ pc = "mine_init"
    /\ IF generate_initial_raises(transactions)
       THEN /\ pc' = "done"
            /\ outcome' = "ZeroDivisionError"
            /\ UNCHANGED <<frequent_items, frequent_items_output>>
       ELSE /\ pc' = "mine_loop"
            /\ frequent_items' = generate_initial_frequent_items(transactions, minsup)
            /\ frequent_items_output' = <<>>
            /\ UNCHANGED outcome
    /\ UNCHANGED <<entry, transactions, minsup, minconf, passes, idx, rules, prev>>

\* one pass of the while loop, lines 43-50
Pass ==
    /\ pc = "mine_loop"
    /\ Len(frequent_items) > 0
    /\ frequent_items_output' = extend(frequent_items_output, frequent_items)
    /\ passes' = passes + 1
    /\ LET candidates == candidate_generation(frequent_items)
           pruned_candidates == candidate_prune(frequent_items, candidates)
       IN  IF candidate_elimination_raises(transactions, pruned_candidates)
           THEN /\ pc' = "done"
                /\ outcome' = "ZeroDivisionError"
                /\ UNCHANGED frequent_items
           ELSE /\ frequent_items' =
                       candidate_elimination(transactions, pruned_candidates, minsup)
                /\ UNCHANGED <<pc, outcome>>
    /\ UNCHANGED <<entry, transactions, minsup, minconf, idx, rules, prev>>

\* the while test fails and line 51 returns: to the caller, or to line 203
\* of generate_association_rules, which goes on with lines 204-205
MineReturn ==
    /\ pc = "mine_loop"
    /\ Len(frequent_items) = 0
    /\ \/ /\ entry = "itemset"
          /\ pc' = "done"
          /\ outcome' = "returned"
          /\ UNCHANGED <<idx, rules>>
       \/ /\ entry = "rules"
          /\ pc' = "rules_loop"
          /\ idx' = 1
          /\ rules' = <<>>
          /\ UNCHANGED outcome
    /\ UNCHANGED <<entry, transactions, minsup, minconf, frequent_items,
                   frequent_items_output, passes, prev>>

\* one iteration of the for loop, lines 205-216
RuleItemset ==
    /\ pc = "rules_loop"
    /\ idx <= Len(frequent_items_output)
    /\ LET r == rules_of_itemset(transactions, frequent_items_output[idx], minconf)
       IN  IF r.raises
           THEN /\ pc' = "done"
                /\ outcome' = "ZeroDivisionError"
                /\ UNCHANGED <<idx, rules>>
           ELSE /\ rules' = extend(rules, r.rules)
                /\ idx' = idx + 1
                /\ UNCHANGED <<pc, outcome>>
    /\ UNCHANGED <<entry, transactions, minsup, minconf, frequent_items,
                   frequent_items_output, passes, prev>>

\* the for loop is exhausted and line 218 returns
RulesReturn ==
    /\ pc = "rules_loop"
    /\ idx > Len(frequent_items_output)
    /\ pc' = "done"
    /\ outcome' = "returned"
    /\ UNCHANGED <<entry, transactions, minsup, minconf, frequent_items,
                   frequent_items_output, passes, idx, rules, prev>>

Next ==
    \/ CallFrequentItemset
    \/ CallAssociationRules
    \/ GenerateInitial
    \/ Pass
    \/ MineReturn
    \/ RuleItemset
    \/ RulesReturn

Spec == Init /\ [][Next]_vars

\* the interpreter runs a started call on: no step of it waits on anything
FairSpec == Spec /\ WF_vars(Next)

----------------------------------------------------------------------------
(* A second call on the same data in another order.                        *)

SwapAt(s, i) == [k \in 1..Len(s) |->
                    IF k = i THEN s[i + 1] ELSE IF k = i + 1 THEN s[i] ELSE s[k]]

\* the lists got from T by exchanging two neighbouring transactions or two
\* neighbouring labels of one transaction; these exchanges generate every
\* reordering of the transactions and of the labels inside each
AdjacentSwaps(T) ==
    ({SwapAt(T, i) : i \in 1..(Len(T) - 1)}
     \cup UNION {{[T EXCEPT ![i] = SwapAt(T[i], j)] : j \in 1..(Len(T[i]) - 1)} :
                 i \in 1..Len(T)})
    \ {T}

\* the position of the separator in a rule list, and the two sides
ArrowPos(rule) == CHOOSE i \in 1..Len(rule) : rule[i] = ARROW
Antecedent(rule) == SubSeq(rule, 1, ArrowPos(rule) - 1)
Consequent(rule) == SubSeq(rule, ArrowPos(rule) + 1, Len(rule))

\* the accumulated itemsets read as label-sets, the accumulated rules read
\* as (antecedent set, consequent set) pairs
OutputSets == {Range(frequent_items_output[k]) : k \in 1..Len(frequent_items_output)}
RuleSets == {<<Range(Antecedent(rules[r])), Range(Consequent(rules[r]))>> :
                r \in 1..Len(rules)}

\* what the finished call handed to its caller
Returned ==
    [outcome |-> outcome,
     itemsets |-> OutputSets,
     rules |-> IF outcome = "returned" THEN RuleSets ELSE {}]

\* the caller calls the same entry point again, with the same thresholds, on
\* the same transactions in another order
Rerun ==
    /\ pc = "done"
    /\ prev = <<>>
    /\ \E T \in AdjacentSwaps(transactions) : transactions' = T
    /\ prev' = <<Returned>>
    /\ pc' = "mine_init"
    /\ frequent_items' = <<>>
    /\ frequent_items_output' = <<>>
    /\ passes' = 0
    /\ idx' = 0
    /\ rules' = <<>>
    /\ outcome' = "none"
    /\ UNCHANGED <<entry, minsup, minconf>>

NextPerm == Next \/ Rerun

SpecPerm == Init /\ [][NextPerm]_vars

----------------------------------------------------------------------------
(* Reference notions the properties are stated in.                         *)

\* number of transactions that contain every label of the label-set S
SetSupportCount(T, S) == Cardinality({i \in 1..Len(T) : S \subseteq Range(T[i])})

NoRepeatedLabel(T) == \A i \in 1..Len(T) : Cardinality(Range(T[i])) = Len(T[i])

InUnitInterval(t) == t[1] > 0 /\ t[1] <= t[2]

ThresholdsInRange ==
    InUnitInterval(minsup) /\ (entry = "rules" => InUnitInterval(minconf))

\* generate_frequent_itemset has returned its list
MiningReturned == idx >= 1 \/ (pc = "done" /\ outcome = "returned")

NonEmptySubsets(S) == SUBSET S \ {{}}

FrequentSets(T, ms) ==
    {S \in NonEmptySubsets(Items) : RatioGeq(SetSupportCount(T, S), Len(T), ms)}

----------------------------------------------------------------------------
C2_SubsetClosed ==
    \A k \in 1..Len(frequent_items_output) :
        LET S == Range(frequent_items_output[k])
        IN  Cardinality(S) >= 2 =>
                \A R \in NonEmptySubsets(S) : R # S => R \in OutputSets

\* the loop has accumulated an itemset of three labels
C2_Witness ==
    /\ pc = "mine_loop"
    /\ \E k \in 1..Len(frequent_items_output) : Len(frequent_items_output[k]) = 3

(* C3: every rule in the accumulated rules has exactly one separator, a    *)
(* non-empty antecedent and a non-empty consequent that are disjoint, the  *)
(* union of the two is an itemset of the frequent-itemset result, and      *)
(* support(antecedent + consequent) / support(antecedent) >= minconf.      *)
C3_RulesValid ==
    \A r \in 1..Len(rules) :
        LET X == Range(Antecedent(rules[r]))
            Y == Range(Consequent(rules[r]))
        IN  /\ Cardinality({i \in 1..Len(rules[r]) : rules[r][i] = ARROW}) = 1
            /\ X # {}
            /\ Y # {}
            /\ X \cap Y = {}
            /\ (X \cup Y) \in OutputSets
            /\ SetSupportCount(transactions, X) > 0
            /\ RatioGeq(SetSupportCount(transactions, X \cup Y),
                        SetSupportCount(transactions, X), minconf)

\* a returned rule list with a consequent of two labels, under a minconf
\* that some split of a frequent itemset does not reach
C3_Witness ==
    /\ pc = "done"
    /\ entry = "rules"
    /\ outcome = "returned"
    /\ \E r \in 1..Len(rules) : Len(Consequent(rules[r])) = 2
    /\ \E S \in OutputSets : \E Y \in NonEmptySubsets(S) :
          /\ Y # S
          /\ <<S \ Y, Y>> \notin RuleSets

\* the splits of the frequent itemsets of size >= 2 into a non-empty
\* antecedent X and a non-empty consequent Y whose confidence reaches minconf
ConfidentSplits ==
    {xy \in UNION {{<<S \ Y, Y>> : Y \in NonEmptySubsets(S) \ {S}} :
                    S \in {R \in OutputSets : Cardinality(R) >= 2}} :
        /\ SetSupportCount(transactions, xy[1]) > 0
        /\ RatioGeq(SetSupportCount(transactions, xy[1] \cup xy[2]),
                    SetSupportCount(transactions, xy[1]), minconf)}

(* C4: when a call of generate_association_rules has ended, every split of *)
(* a frequent itemset of size >= 2 into antecedent X and consequent Y with *)
(* support(X + Y) / support(X) >= minconf is among the rules it returned.  *)
C4_NoRuleLost ==
    (pc = "done" /\ entry = "rules") =>
        \A xy \in ConfidentSplits : outcome = "returned" /\ xy \in RuleSets

\* C4 on the calls that return: the pruning of consequents loses no rule
PruningLosesNoRuleWhenReturned ==
    (pc = "done" /\ entry = "rules" /\ outcome = "returned") =>
        ConfidentSplits \subseteq RuleSets

\* a returned rule list that holds a rule with a consequent of two labels
\* while a consequent of the same itemset was pruned
PruningLosesNoRuleWitness ==
    /\ pc = "done"
    /\ entry = "rules"
    /\ outcome = "returned"
    /\ \E xy \in RuleSets : Cardinality(xy[2]) = 2
    /\ \E S \in OutputSets : \E Y \in NonEmptySubsets(S) \ {S} :
          <<S \ Y, Y>> \notin RuleSets

(* C5: for every transaction list and every minsup, 0 included, the body   *)
(* of the for loop of generate_association_rules passes calculate_conf     *)
(* only antecedents of positive support: it never divides by zero.         *)
C5_NoDivisionByZero ==
    (pc = "rules_loop" /\ idx <= Len(frequent_items_output)) =>
        ~rules_of_itemset(transactions, frequent_items_output[idx], minconf).raises

\* C5 for minsup > 0
NoDivisionByZeroForPositiveMinsup ==
    minsup[1] > 0 => outcome # "ZeroDivisionError"

(* C6: a call with minsup outside (0,1], or of generate_association_rules  *)
(* with minconf outside (0,1], stays at its entry until it ends in an      *)
(* error: it counts no support, runs no pass and returns no list.  Stated  *)
(* on the non-empty transaction lists, where C7 asks for no other outcome. *)
C6_RejectedAtEntry ==
    (pc # "idle" /\ Len(transactions) > 0 /\ ~ThresholdsInRange) =>
        /\ pc \in {"mine_init", "done"}
        /\ outcome # "returned"
        /\ passes = 0

(* C7: on the empty transaction list both entry points return the empty    *)
(* list, for every minsup and minconf, and no division by the transaction  *)
(* count raises.                                                           *)
C7_EmptyInputReturnsEmpty ==
    (pc # "idle" /\ transactions = <<>>) =>
        /\ outcome # "ZeroDivisionError"
        /\ pc = "done" =>
              /\ outcome = "returned"
              /\ frequent_items_output = <<>>
              /\ rules = <<>>

\* generate_association_rules has returned on the empty transaction list
C7_Witness ==
    /\ pc = "done"
    /\ entry = "rules"
    /\ transactions = <<>>
    /\ outcome = "returned"

(* C8: a second call on the transactions with two neighbouring             *)
(* transactions, or two neighbouring labels of a transaction, exchanged,   *)
(* and the same thresholds, ends as the first did, with the same set of    *)
(* label-sets and the same set of (antecedent set, consequent set) pairs.  *)
(* The exchanges generate every reordering and the input lists are closed  *)
(* under them, so the results agree on every two reorderings.              *)
C8_OrderIndependent ==
    (pc = "done" /\ prev # <<>>) => prev[1] = Returned

\* a second call has ended on reordered data whose itemset lists differ from
\* the first call's as lists: a frequent pair is listed in the other order
C8_Witness ==
    /\ pc = "done"
    /\ prev # <<>>
    /\ \E k \in 1..Len(frequent_items_output) :
          /\ Len(frequent_items_output[k]) = 2
          /\ frequent_items_output[k][1] = "b"
          /\ frequent_items_output[k][2] = "a"
    /\ Cardinality(prev[1].rules) >= 2

\* the single items whose support, counted in transactions, meets minsup
ItemsMeetingMinsup ==
    {x \in Range(Flatten(transactions)) :
        RatioGeq(SetSupportCount(transactions, {x}), Len(transactions), minsup)}

(* C9: the level-wise loop runs at most n passes, n the number of distinct *)
(* single items that meet minsup, and with n = 0 generate_frequent_itemset *)
(* returns the empty list without a pass.                                  *)
C9_PassesBounded ==
    /\ passes <= Cardinality(ItemsMeetingMinsup)
    /\ (MiningReturned /\ ItemsMeetingMinsup = {}) => frequent_items_output = <<>>

\* C9 with n the number of size-1 itemsets generate_initial_frequent_items
\* returned: the frontier of pass p holds itemsets of p labels among those n,
\* and generate_frequent_itemset never raises
PassesBoundedByInitialItems ==
    /\ (entry = "itemset" \/ idx = 0) => outcome # "ZeroDivisionError"
    /\ pc = "mine_loop" =>
          /\ \A k \in 1..Len(frequent_items) :
                /\ Len(frequent_items[k]) = passes + 1
                /\ Cardinality(Range(frequent_items[k])) = passes + 1
                /\ passes > 0 =>
                      \A x \in Range(frequent_items[k]) : {x} \in OutputSets
          /\ passes <= Cardinality({S \in OutputSets : Cardinality(S) = 1})

\* every call ends: it returns or raises
CallEnds == <>(pc = "done")

(* C10: generate_initial_frequent_items keeps an item x of the transactions *)
(* exactly when the                                                        *)
(* support get_support_for_candidate gives [x], the number of transactions *)
(* that contain x over the number of transactions, is at least minsup.     *)
C10_InitialSupportCountsTransactions ==
    (pc = "mine_loop" /\ passes = 0 /\ Len(transactions) > 0) =>
        \A x \in Range(Flatten(transactions)) :
            InList(<<x>>, frequent_items)
            <=> RatioGeq(support_count(transactions, <<x>>), Len(transactions), minsup)

\* C10 on the lists in which no transaction repeats a label
InitialSupportAgreesWithoutRepeats ==
    (pc = "mine_loop" /\ passes = 0 /\ Len(transactions) > 0
        /\ NoRepeatedLabel(transactions)) =>
        \A x \in Range(Flatten(transactions)) :
            InList(<<x>>, frequent_items)
            <=> RatioGeq(support_count(transactions, <<x>>), Len(transactions), minsup)

\* the frontier read as label-sets
FrontierSets == {Range(frequent_items[i]) : i \in 1..Len(frequent_items)}

\* the label-sets of n labels all of whose subsets of n - 1 labels are in Fs
AllSubsetsIn(Fs, n) ==
    {S \in SUBSET Items :
        /\ Cardinality(S) = n
        /\ \A x \in S : (S \ {x}) \in Fs}

\* the pairwise-union join: the unions of two distinct members of Fs that
\* have n labels
UnionJoin(Fs, n) ==
    {S \in {a \cup b : a, b \in Fs} : Cardinality(S) = n}

\* the pruning on label-sets: nothing for a frontier of single items, else
\* keep the candidates all of whose subsets one label smaller are in Fs
PruneSets(Fs, Cs, n) ==
    IF n = 2 THEN Cs ELSE {S \in Cs : \A x \in S : (S \ {x}) \in Fs}

\* what lines 46-48 make of the frontier
PrunedCandidates == candidate_prune(frequent_items, candidate_generation(frequent_items))

(* C11: for every non-empty frontier F_k the loop reaches,                 *)
(* candidate_generation followed by candidate_prune yields lists of k + 1  *)
(* distinct labels, no two of them the same label-set, and as label-sets   *)
(* exactly the itemsets of k + 1 labels all of whose subsets of k labels   *)
(* are in F_k, which is also what the pairwise-union join followed by the  *)
(* same pruning gives.                                                     *)
C11_JoinAndPruneExact ==
    (pc = "mine_loop" /\ Len(frequent_items) > 0) =>
        LET k == Len(frequent_items[1])
            C == PrunedCandidates
            Cs == {Range(C[i]) : i \in 1..Len(C)}
        IN  /\ \A i \in 1..Len(C) :
                  /\ Len(C[i]) = k + 1
                  /\ Cardinality(Range(C[i])) = k + 1
            /\ \A i, j \in 1..Len(C) : Range(C[i]) = Range(C[j]) => i = j
            /\ Cs = AllSubsetsIn(FrontierSets, k + 1)
            /\ Cs = PruneSets(FrontierSets, UnionJoin(FrontierSets, k + 1), k + 1)

\* a frontier of pairs from which the prefix join makes a candidate of three
\* labels that the pruning keeps
C11_Witness ==
    /\ pc = "mine_loop"
    /\ Len(frequent_items) > 0
    /\ Len(frequent_items[1]) = 2
    /\ Len(PrunedCandidates) = 1

\* a frontier of pairs whose only joined candidate the pruning removes
C11_PrunedWitness ==
    /\ pc = "mine_loop"
    /\ Len(frequent_items) > 0
    /\ Len(frequent_items[1]) = 2
    /\ Len(candidate_generation(frequent_items)) = 1
    /\ Len(PrunedCandidates) = 0

====
